---- MODULE Spec2Model ----
(***************************************************************************)
(* Model of entropy/src/main.rs: diffusion of energy over an h x w grid.   *)
(*                                                                         *)
(* f64 values are modelled as exact rationals <<num, den>> in lowest terms *)
(* (den > 0), plus the IEEE value NaN, written <<0, 0>>.  Rounding is not  *)
(* modelled; 0.0 / 0.0 = NaN and the propagation of NaN are.               *)
(***************************************************************************)
EXTENDS Integers, Sequences, FiniteSets, TLC

\* ------------------------------------------------------------------ bounds
\* the grids of Spec and RichSpec have at most MaxCells cells
MaxCells == 9
\* hotspots of the configurations of Spec are drawn from 0..MaxHot
MaxHot == 2
\* the render callback runs at most MaxSteps times (the frame counter i)
MaxSteps == 2
\* rng.gen() returns d / (MaxDraw + 1) for some d in 0..MaxDraw
MaxDraw == 1
\* calls of probability_mat, per run of RichSpec, whose draws are odd
MaxOdd == 1
\* dims of the configurations of InitSpec are drawn from 0..MaxInitDim
MaxInitDim == 2
\* dims of the configurations of WideSpec are drawn from 4..MaxWideDim
MaxWideDim == 5
\* probability_mat is called with shapes of at most MaxSide rows and columns
MaxSide == 3

VARIABLES
    pc,               \* position of the program
    h, w, hotspots,   \* Config.dims, Config.hotspots
    lagged_board,     \* init_board's board, moved into start_loop's lagged_board
    board,            \* start_loop's board (the working grid)
    quota,            \* init_board's quota
    i,                \* start_loop's frame counter
    corner_energies,  \* board_time_step's corner_energies
    k,                \* index of the zip over the corners
    ci, cj,           \* board_time_step's loop variables i and j
    budget,           \* odd calls of probability_mat the run may make
    odd,              \* odd calls of probability_mat the run has made
    init_sum,         \* history: sum of the grid init_board returned
    reads,            \* history: times each lagged cell was read in this step
    src,              \* history: source cell of the last contribution
    patch,            \* history: slice the last contribution was added to
    ab,               \* ProbSpec: the shape handed to probability_mat
    p                 \* ProbSpec: the matrix probability_mat returned

vars == <<pc, h, w, hotspots, lagged_board, board, quota, i, corner_energies,
          k, ci, cj, budget, odd, init_sum, reads, src, patch, ab, p>>

\* ------------------------------------------------------------------ f64
NaN == <<0, 0>>
Zero == <<0, 1>>
IsNaN(x) == x[2] = 0

Abs(n) == IF n < 0 THEN -n ELSE n

RECURSIVE GCD(_, _)
GCD(a, b) == IF b = 0 THEN a ELSE GCD(b, a % b)

\* the rational n/d (d # 0) in lowest terms with a positive denominator
Rat(n, d) ==
    LET g == GCD(Abs(n), Abs(d))
        s == IF d < 0 THEN -1 ELSE 1
    IN <<(s * n) \div g, (s * d) \div g>>

FromInt(n) == <<n, 1>>

\* x + y, x * y and x / y on values
AddValues(x, y) ==
    IF IsNaN(x) \/ IsNaN(y) THEN NaN
    ELSE IF y[1] = 0 THEN x
    ELSE IF x[1] = 0 THEN y
    ELSE Rat(x[1] * y[2] + y[1] * x[2], x[2] * y[2])

MulValues(x, y) ==
    IF IsNaN(x) \/ IsNaN(y) THEN NaN
    ELSE IF x[1] = 0 \/ y[1] = 0 THEN Zero
    ELSE Rat(x[1] * y[1], x[2] * y[2])

\* the program divides by zero only as 0.0 / 0.0, which is NaN
DivValues(x, y) ==
    IF IsNaN(x) \/ IsNaN(y) \/ y[1] = 0 THEN NaN
    ELSE Rat(x[1] * y[2], x[2] * y[1])

\* the f64 operators +, * and /; each operand is evaluated once, then bound
FAdd(x, y) == CHOOSE r \in {AddValues(a, b) : a \in {x}, b \in {y}} : TRUE
FMul(x, y) == CHOOSE r \in {MulValues(a, b) : a \in {x}, b \in {y}} : TRUE
FDiv(x, y) == CHOOSE r \in {DivValues(a, b) : a \in {x}, b \in {y}} : TRUE

\* ------------------------------------------------------------------ grids
Cells(hh, ww) == (0 .. hh - 1) \X (0 .. ww - 1)

\* Array2::zeros((h, w))
Zeros(hh, ww) == [c \in Cells(hh, ww) |-> Zero]

RECURSIVE SumOver(_, _)
SumCells(g, S) ==
    IF S = {} THEN Zero
    ELSE LET c == CHOOSE x \in S : TRUE
         IN FAdd(g[c], SumOver(g, S \ {c}))

\* the sum of g over the cells S; g and S are evaluated once, then bound
SumOver(g, S) == CHOOSE r \in {SumCells(a, b) : a \in {g}, b \in {S}} : TRUE

GridSum(g) == SumOver(g, DOMAIN g)

NonZeroCells(g) == {c \in DOMAIN g : g[c] # Zero}

NoNaN(g) == \A c \in DOMAIN g : ~IsNaN(g[c])

\* ------------------------------------------------------------------ rng
\* rng.gen::<f64>(): the draw d stands for the f64 d / (MaxDraw + 1)
Draw(d) == Rat(d, MaxDraw + 1)

\* every vector of n draws
AllDraws(n) == [1 .. n -> 0 .. MaxDraw]

\* n draws of which exactly one is not 0.0 (it is the largest draw: after
\* p /= s its weight is 1.0 whatever it was)
UnitDraws(n) == {[x \in 1 .. n |-> IF x = m THEN MaxDraw ELSE 0] : m \in 1 .. n}

IsUnit(d) == Cardinality({x \in DOMAIN d : d[x] # 0}) = 1

\* n draws that are all 0.0, or of which exactly two are not 0.0
OddDraws(n) ==
    {[x \in 1 .. n |-> 0]} \cup
    UNION {{[x \in 1 .. n |-> IF x = m[1] THEN v[1] ELSE IF x = m[2] THEN v[2] ELSE 0] :
              v \in (1 .. MaxDraw) \X (1 .. MaxDraw)} :
           m \in {y \in (1 .. n) \X (1 .. n) : y[1] < y[2]}}

\* the draws one call of probability_mat may get: one draw that is not 0.0
\* or, while the run's budget lasts, an odd vector
RngDraws(n) == UnitDraws(n) \cup (IF odd < budget THEN OddDraws(n) ELSE {})

\* ------------------------------------------------------- probability_mat
RECURSIVE SumDraws(_, _)
SumDraws(d, n) == IF n = 0 THEN Zero ELSE FAdd(SumDraws(d, n - 1), Draw(d[n]))

\* probability_mat without its last statement, p /= s
probability_mat_unnormalized(a, b, d) ==
    [c \in Cells(a, b) |-> Draw(d[c[1] * b + c[2] + 1])]

\* p[[i, j]] = rng.gen() in row-major order, s their sum, then p /= s
probability_mat(a, b, d) ==
    LET s == SumDraws(d, a * b)
    IN [c \in Cells(a, b) |-> FDiv(Draw(d[c[1] * b + c[2] + 1]), s)]

\* ------------------------------------------------------------ init_board
\* (h * w * w / h) / hotspots, in f64
HotspotEnergy ==
    FDiv(FDiv(FMul(FMul(FromInt(h), FromInt(w)), FromInt(w)), FromInt(h)),
         FromInt(hotspots))

NoSlice == [r0 |-> 0, r1 |-> 0, c0 |-> 0, c1 |-> 0]

InitWith(hh, ww, hs, bg) ==
    /\ pc = "main"
    /\ h = hh /\ w = ww /\ hotspots = hs
    /\ budget = bg
    /\ lagged_board = <<>> /\ board = <<>>
    /\ quota = 0 /\ i = 0
    /\ corner_energies = <<>> /\ k = 0 /\ ci = 0 /\ cj = 0
    /\ odd = 0
    /\ init_sum = Zero /\ reads = <<>> /\ src = <<0, 0>> /\ patch = NoSlice
    /\ ab = <<0, 0>> /\ p = <<>>

\* config.json as read: any dims of at most MaxCells cells
Configs ==
    {c \in (0 .. MaxCells) \X (0 .. MaxCells) \X (0 .. MaxHot) : c[1] * c[2] <= MaxCells}

Init == \E c \in Configs : InitWith(c[1], c[2], c[3], 0)

stepv == <<corner_energies, k, ci, cj, odd, reads, src, patch>>
probv == <<ab, p>>

Panic == pc' = "panicked"

\* main: get_config returns the configuration as read, start_loop calls
\* init_board, which allocates its board and sets quota to 0
Main ==
    /\ pc = "main"
    /\ pc' = "init_loop"
    /\ lagged_board' = Zeros(h, w)
    /\ quota' = 0
    /\ UNCHANGED <<h, w, hotspots, budget, board, i, init_sum, stepv, probv>>

\* init_draw without the test of the drawn cell: a filled cell is filled
\* again and counted again
init_draw_unchecked(ry, rx) ==
    /\ pc = "init_loop"
    /\ quota # hotspots
    /\ ry \in 0 .. h - 1 /\ rx \in 0 .. w - 1
    /\ lagged_board' = [lagged_board EXCEPT ![<<ry, rx>>] = HotspotEnergy]
    /\ quota' = quota + 1
    /\ UNCHANGED <<pc, h, w, hotspots, budget, board, i, init_sum, stepv, probv>>

\* init_draw with the test of the drawn cell inverted: == for !=
init_draw_inverted(ry, rx) ==
    /\ pc = "init_loop"
    /\ quota # hotspots
    /\ ry \in 0 .. h - 1 /\ rx \in 0 .. w - 1
    /\ IF lagged_board[<<ry, rx>>] = Zero
       THEN UNCHANGED <<lagged_board, quota>>
       ELSE /\ lagged_board' = [lagged_board EXCEPT ![<<ry, rx>>] = HotspotEnergy]
            /\ quota' = quota + 1
    /\ UNCHANGED <<pc, h, w, hotspots, budget, board, i, init_sum, stepv, probv>>

\* one pass of the while loop with the draws rx, ry in range
init_draw(ry, rx) ==
    /\ pc = "init_loop"
    /\ quota # hotspots
    /\ ry \in 0 .. h - 1 /\ rx \in 0 .. w - 1
    /\ IF lagged_board[<<ry, rx>>] # Zero
       THEN UNCHANGED <<lagged_board, quota>>
       ELSE /\ lagged_board' = [lagged_board EXCEPT ![<<ry, rx>>] = HotspotEnergy]
            /\ quota' = quota + 1
    /\ UNCHANGED <<pc, h, w, hotspots, budget, board, i, init_sum, stepv, probv>>

InitLoop == \E ry \in 0 .. h - 1, rx \in 0 .. w - 1 : init_draw(ry, rx)

\* rng.gen_range(0..0) panics: the range is empty
InitPanic ==
    /\ pc = "init_loop"
    /\ quota # hotspots
    /\ ~(w > 0 /\ h > 0)
    /\ Panic
    /\ UNCHANGED <<h, w, hotspots, budget, lagged_board, board, quota, i, init_sum, stepv, probv>>

\* init_board returns its board, which start_loop keeps as lagged_board;
\* start_loop allocates board and the frame counter
InitReturn ==
    /\ pc = "init_loop"
    /\ quota = hotspots
    /\ pc' = "render"
    /\ board' = Zeros(h, w)
    /\ i' = 0
    /\ init_sum' = GridSum(lagged_board)
    /\ UNCHANGED <<h, w, hotspots, budget, lagged_board, quota, stepv, probv>>

\* ------------------------------------------------------- board_time_step
\* s![r0..r1, c0..c1]
Slice(r0, r1, c0, c1) == [r0 |-> r0, r1 |-> r1, c0 |-> c0, c1 |-> c1]

SliceCells(s) == (s.r0 .. s.r1 - 1) \X (s.c0 .. s.c1 - 1)

\* slice_mut panics unless start <= end <= axis length on both axes
InBounds(s) == s.r0 <= s.r1 /\ s.r1 <= h /\ s.c0 <= s.c1 /\ s.c1 <= w

\* += panics unless the matrix has the shape of the slice
ShapeFits(s, a, b) == s.r1 - s.r0 = a /\ s.c1 - s.c0 = b

corner_slices ==
    << Slice(0, 2, 0, 2),           \* top left
       Slice(0, 2, w - 2, w),       \* top right
       Slice(h - 2, h, 0, 2),       \* bottom left
       Slice(h - 2, h, w - 2, w) >> \* bottom right

corner_cells == << <<0, 0>>, <<0, w - 1>>, <<h - 1, 0>>, <<h - 1, w - 1>> >>

top_slice(j) == Slice(0, 2, j - 1, j + 2)
bottom_slice(j) == Slice(h - 2, h, j - 1, j + 2)
left_slice(r) == Slice(r - 1, r + 2, 0, 2)
inner_slice(r, j) == Slice(r - 1, r + 2, j - 1, j + 2)
right_slice(r) == Slice(r - 1, r + 2, h - 2, h)

\* g with e * m added into the slice s
SliceAdd(g, s, e, m) ==
    [c \in DOMAIN g |->
        IF s.r0 <= c[1] /\ c[1] < s.r1 /\ s.c0 <= c[2] /\ c[2] < s.c1
        THEN FAdd(g[c], FMul(e, m[<<c[1] - s.r0, c[2] - s.c0>>]))
        ELSE g[c]]

\* spread with slice a view of lagged_board: a single buffer, updated in place
spread_in_place(s, e, a, b, d) ==
    /\ lagged_board' = SliceAdd(lagged_board, s, e, probability_mat(a, b, d))
    /\ board' = board

\* slice += &(energy * &probability_mat((a, b), rng)), where slice is a
\* view of board: board is written, lagged_board is not
spread(s, e, a, b, d) ==
    /\ board' = SliceAdd(board, s, e, probability_mat(a, b, d))
    /\ lagged_board' = lagged_board

\* one contribution: the slice s of board is taken, then energy e of the
\* lagged cell `cell` is spread over it with fresh weights
Contribute(s, cell, e, a, b) ==
    /\ InBounds(s) /\ ShapeFits(s, a, b)
    /\ \E d \in RngDraws(a * b) :
          /\ spread(s, e, a, b, d)
          /\ odd' = IF IsUnit(d) THEN odd ELSE odd + 1
    /\ src' = cell
    /\ patch' = s

Read(cell) == reads' = [reads EXCEPT ![cell] = @ + 1]

fixed == <<h, w, hotspots, budget, quota, i, init_sum, probv>>

\* the render callback counts the frame and calls board_time_step, which
\* builds corner_slices and corner_energies.  With h < 2 or w < 2 the call
\* panics before it writes: a debug build at w - 2 or h - 2, a release
\* build at an index of corner_energies or at the first slice_mut.
StepBegin ==
    /\ pc = "render"
    /\ i < MaxSteps
    /\ i' = i + 1
    /\ IF h < 2 \/ w < 2
       THEN /\ Panic
            /\ UNCHANGED <<lagged_board, board, stepv>>
       ELSE /\ pc' = "corners"
            /\ corner_energies' = [x \in 1 .. 4 |-> lagged_board[corner_cells[x]]]
            /\ reads' = [c \in Cells(h, w) |->
                            Cardinality({x \in 1 .. 4 : corner_cells[x] = c})]
            /\ k' = 0
            /\ UNCHANGED <<lagged_board, board, ci, cj, odd, src, patch>>
    /\ UNCHANGED <<h, w, hotspots, budget, quota, init_sum, probv>>

\* for (slice, energy) in zip(corner_slices, corner_energies)
Corner ==
    /\ pc = "corners"
    /\ IF k < 4
       THEN /\ Contribute(corner_slices[k + 1], corner_cells[k + 1],
                          corner_energies[k + 1], 2, 2)
            /\ k' = k + 1
            /\ UNCHANGED <<pc, cj>>
       ELSE /\ pc' = "top"
            /\ cj' = 1
            /\ UNCHANGED <<lagged_board, board, odd, src, patch, k>>
    /\ UNCHANGED <<corner_energies, ci, reads, fixed>>

\* for j in 1..w - 1, top border
Top ==
    /\ pc = "top"
    /\ IF cj < w - 1
       THEN /\ Contribute(top_slice(cj), <<0, cj>>, lagged_board[<<0, cj>>], 2, 3)
            /\ Read(<<0, cj>>)
            /\ cj' = cj + 1
            /\ UNCHANGED pc
       ELSE /\ pc' = "bottom"
            /\ cj' = 1
            /\ UNCHANGED <<lagged_board, board, odd, src, patch, reads>>
    /\ UNCHANGED <<corner_energies, k, ci, fixed>>

\* for j in 1..w - 1, bottom border
Bottom ==
    /\ pc = "bottom"
    /\ IF cj < w - 1
       THEN /\ Contribute(bottom_slice(cj), <<h - 1, cj>>, lagged_board[<<h - 1, cj>>], 2, 3)
            /\ Read(<<h - 1, cj>>)
            /\ cj' = cj + 1
            /\ UNCHANGED <<pc, ci>>
       ELSE /\ pc' = "rows"
            /\ ci' = 1
            /\ UNCHANGED <<lagged_board, board, odd, src, patch, reads, cj>>
    /\ UNCHANGED <<corner_energies, k, fixed>>

\* for i in 1..h - 1: the loop test, then the leftmost cell of the row
Left ==
    /\ pc = "rows"
    /\ IF ci < h - 1
       THEN /\ Contribute(left_slice(ci), <<ci, 0>>, lagged_board[<<ci, 0>>], 3, 2)
            /\ Read(<<ci, 0>>)
            /\ pc' = "inner"
            /\ cj' = 1
       ELSE /\ pc' = "copy"
            /\ UNCHANGED <<lagged_board, board, odd, src, patch, reads, cj>>
    /\ UNCHANGED <<corner_energies, k, ci, fixed>>

\* for j in 1..w - 1, in between
Inner ==
    /\ pc = "inner"
    /\ IF cj < w - 1
       THEN /\ Contribute(inner_slice(ci, cj), <<ci, cj>>, lagged_board[<<ci, cj>>], 3, 3)
            /\ Read(<<ci, cj>>)
            /\ cj' = cj + 1
            /\ UNCHANGED pc
       ELSE /\ pc' = "right"
            /\ UNCHANGED <<lagged_board, board, odd, src, patch, reads, cj>>
    /\ UNCHANGED <<corner_energies, k, ci, fixed>>

\* the rightmost cell of the row
Right ==
    /\ pc = "right"
    /\ Contribute(right_slice(ci), <<ci, w - 1>>, lagged_board[<<ci, w - 1>>], 3, 2)
    /\ Read(<<ci, w - 1>>)
    /\ pc' = "rows"
    /\ ci' = ci + 1
    /\ UNCHANGED <<corner_energies, k, cj, fixed>>

\* slice_mut panics on the slice of the rightmost cell: h - 2..h is past
\* the end of an axis of length w
RightPanic ==
    /\ pc = "right"
    /\ ~InBounds(right_slice(ci))
    /\ Panic
    /\ UNCHANGED <<lagged_board, board, stepv, fixed>>

\* StepEnd without board.fill(0.0)
StepEnd_no_fill ==
    /\ pc = "copy"
    /\ lagged_board' = board
    /\ board' = board
    /\ pc' = "render"
    /\ UNCHANGED <<stepv, fixed>>

\* lagged_board.clone_from(board); board.fill(0.0)
StepEnd ==
    /\ pc = "copy"
    /\ lagged_board' = board
    /\ board' = [c \in DOMAIN board |-> Zero]
    /\ pc' = "render"
    /\ UNCHANGED <<stepv, fixed>>

Step == StepBegin \/ Corner \/ Top \/ Bottom \/ Left \/ Inner \/ Right \/ RightPanic \/ StepEnd

Next == Main \/ InitLoop \/ InitPanic \/ InitReturn \/ Step

Spec == Init /\ [][Next]_vars

\* the runs in which up to MaxOdd calls of probability_mat draw an odd vector
RichInit == \E c \in Configs : InitWith(c[1], c[2], c[3], MaxOdd)

RichSpec == RichInit /\ [][Next]_vars

\* ------------------------------------------------- init_board on its own
\* every hotspot count up to one more than the grid holds
InitConfigs ==
    {c \in (0 .. MaxInitDim) \X (0 .. MaxInitDim) \X (0 .. MaxInitDim * MaxInitDim + 1) :
        c[3] <= c[1] * c[2] + 1}

InitInit == \E c \in InitConfigs : InitWith(c[1], c[2], c[3], 0)

InitNext == Main \/ InitLoop \/ InitPanic \/ InitReturn

\* the program runs on, and the random source draws every coordinate of
\* the grid again and again: while a cell is empty, a draw of it, which is
\* a pass of the loop that changes the state, comes
InitFair ==
    /\ WF_vars(Main)
    /\ WF_vars(InitReturn)
    /\ WF_vars(InitLoop)

InitSpec == InitInit /\ [][InitNext]_vars /\ InitFair

\* --------------------------------------------- grids of at least 4 by 4
WideInit ==
    \E hh \in 4 .. MaxWideDim, ww \in 4 .. MaxWideDim : InitWith(hh, ww, 1, 0)

WideNext == Main \/ InitLoop \/ InitReturn \/ Step

WideSpec == WideInit /\ [][WideNext]_vars

\* ---------------------------------------------- probability_mat on its own
ProbInit ==
    \E a \in 1 .. MaxSide, b \in 1 .. MaxSide :
        /\ pc = "prob"
        /\ ab = <<a, b>> /\ p = <<>>
        /\ h = 0 /\ w = 0 /\ hotspots = 0 /\ budget = 0
        /\ lagged_board = <<>> /\ board = <<>>
        /\ quota = 0 /\ i = 0
        /\ corner_energies = <<>> /\ k = 0 /\ ci = 0 /\ cj = 0
        /\ odd = 0
        /\ init_sum = Zero /\ reads = <<>> /\ src = <<0, 0>> /\ patch = NoSlice

\* one call probability_mat((a, b), rng), on any a * b draws
ProbCall ==
    /\ pc = "prob"
    /\ \E d \in AllDraws(ab[1] * ab[2]) : p' = probability_mat(ab[1], ab[2], d)
    /\ pc' = "prob_done"
    /\ UNCHANGED <<h, w, hotspots, budget, lagged_board, board, quota, i, init_sum, stepv, ab>>

ProbSpec == ProbInit /\ [][ProbCall]_vars

\* ------------------------------------------------------------------ claims
\* the configurations the specification calls valid
Valid == h >= 1 /\ w >= 1 /\ hotspots >= 1 /\ hotspots <= h * w

\* positions of board_time_step at which cells are processed
CellPcs == {"corners", "top", "bottom", "rows", "inner", "right"}

\* C1: with h, w >= 2 and 1 <= hotspots <= h * w, from the return of
\* init_board on and after any number of calls of board_time_step, the cells
\* of the lagged grid sum to what the grid returned by init_board summed to,
\* provided every energy was split into shares that add up to it (no weight
\* is NaN); when all cells of a step are processed the working grid has
\* that sum too.
C1_EnergyConserved ==
    (pc \notin {"main", "init_loop"} /\ h >= 2 /\ w >= 2 /\ Valid) =>
        /\ NoNaN(lagged_board) => GridSum(lagged_board) = init_sum
        /\ (pc = "copy" /\ NoNaN(board)) => GridSum(board) = init_sum

\* two steps are done, one of them split an energy in two shares
C1_Witness ==
    /\ pc = "render" /\ i = 2 /\ h >= 3 /\ w >= 3 /\ Valid
    /\ NoNaN(lagged_board)
    /\ Cardinality(NonZeroCells(lagged_board)) > hotspots

\* C2: with h, w >= 1 and 1 <= k <= h * w, the grid init_board returns has
\* exactly k cells that are not zero, each of them (h*w*w/h)/k = w*w/k,
\* whatever coordinates were drawn.
C2_HotspotPlacement ==
    (pc = "render" /\ Valid) =>
        /\ DOMAIN lagged_board = Cells(h, w)
        /\ Cardinality(NonZeroCells(lagged_board)) = hotspots
        /\ \A c \in NonZeroCells(lagged_board) : lagged_board[c] = Rat(w * w, hotspots)

\* init_board has returned a grid of several hotspots and an empty cell
C2_Witness ==
    /\ pc = "render" /\ hotspots >= 2 /\ hotspots < h * w
    /\ Cardinality(NonZeroCells(lagged_board)) = hotspots

\* the patch the specification prescribes for the source cell c
PrescribedPatch(c) ==
    Slice(IF c[1] = 0 THEN 0 ELSE IF c[1] = h - 1 THEN h - 2 ELSE c[1] - 1,
          IF c[1] = 0 THEN 2 ELSE IF c[1] = h - 1 THEN h ELSE c[1] + 2,
          IF c[2] = 0 THEN 0 ELSE IF c[2] = w - 1 THEN w - 2 ELSE c[2] - 1,
          IF c[2] = 0 THEN 2 ELSE IF c[2] = w - 1 THEN w ELSE c[2] + 2)

\* C3: with h, w >= 4, the energy of a source cell is added into the patch
\* prescribed for its position (2x2 at its corner, 2x3 or 3x2 anchored at its
\* border, 3x3 around an interior cell), and that patch holds the cell.
C3_PatchAsPrescribed ==
    (h >= 4 /\ w >= 4 /\ patch # NoSlice) =>
        /\ patch = PrescribedPatch(src)
        /\ src \in SliceCells(patch)

\* C4: with h, w >= 1 and 1 <= hotspots <= h * w, no call of
\* board_time_step panics: no index is out of range and no index
\* expression underflows.
C4_StepNeverPanics == Valid => pc # "panicked"

\* a configuration the specification calls malformed (heat is not read by
\* this program and is left out)
Malformed == h = 0 \/ w = 0 \/ hotspots = 0 \/ hotspots > h * w

\* C5: on a malformed configuration the program fails before init_board
\* returns a grid and before any step runs.
C5_MalformedRejected ==
    Malformed => (pc \in {"main", "init_loop", "panicked"} /\ i = 0)

\* C6: with h, w >= 1 and a random source that draws every coordinate again
\* and again, init_board returns whenever hotspots <= h * w, and it never
\* returns when hotspots > h * w.
C6_InitTerminates ==
    /\ (pc = "init_loop" /\ h >= 1 /\ w >= 1 /\ hotspots <= h * w) ~> (pc = "render")
    /\ []((h >= 1 /\ w >= 1 /\ hotspots > h * w) => pc # "render")

\* init_board has returned a grid of several cells with every cell filled
C6_Witness == pc = "render" /\ h * w >= 2 /\ hotspots = h * w /\ quota = hotspots

\* C7: when a step starts, the first one included, and after every
\* completed call of board_time_step, every cell of the working grid is zero.
C7_WorkingGridZeroed ==
    (pc = "render" \/ (pc = "corners" /\ k = 0)) =>
        /\ DOMAIN board = Cells(h, w)
        /\ \A c \in DOMAIN board : board[c] = Zero

\* the second step starts, the first having moved energy through the
\* working grid
C7_Witness ==
    /\ pc = "corners" /\ k = 0 /\ i = 2
    /\ NonZeroCells(lagged_board) # {}

\* C8: for every shape (a, b) and all a * b draws of [0, 1), probability_mat
\* returns nonnegative weights that sum to 1.
C8_WeightsNormalized ==
    pc = "prob_done" =>
        /\ \A c \in DOMAIN p : ~IsNaN(p[c]) /\ p[c][1] >= 0
        /\ GridSum(p) = FromInt(1)

\* C9: with h, w >= 1 and 1 <= hotspots <= h * w, each hotspot of the grid
\* init_board returns holds h * w / hotspots, and the grid sums to h * w.
C9_TotalIsArea ==
    (pc = "render" /\ Valid) =>
        /\ \A c \in NonZeroCells(lagged_board) : lagged_board[c] = Rat(h * w, hotspots)
        /\ GridSum(lagged_board) = FromInt(h * w)

\* C10: while the cells of a step are processed the lagged grid is not
\* modified and, of the two grids, only the working grid is written; the
\* lagged grid changes only at the end of the step, when every cell has
\* been read as a source exactly once, and it becomes a copy of the working
\* grid.
C10_DoubleBuffering ==
    [][/\ pc \in CellPcs => lagged_board' = lagged_board
       /\ (pc \in CellPcs \cup {"copy", "render"} /\ lagged_board' # lagged_board) =>
              pc = "copy"
       /\ (pc = "copy" /\ pc' # "copy") =>
              /\ lagged_board' = board
              /\ \A c \in Cells(h, w) : reads[c] = 1]_vars

\* every cell of a grid with all four kinds of cells is processed, the
\* working grid differs from the lagged grid, which is not yet overwritten
C10_Witness ==
    /\ pc = "copy" /\ h >= 3 /\ w >= 3 /\ Valid
    /\ board # lagged_board
    /\ \A c \in Cells(h, w) : reads[c] = 1

====
